---- MODULE Spec2Model ----
(***************************************************************************)
(* Model of the flashcard extraction of obsidian-list-anki-parser          *)
(* (src/extract.py, src/const.py).  Strings are sequences of one-character *)
(* strings, so that substring tests, splits and the regular expressions of *)
(* the code are computed and not assumed.  Sequence positions are 1-based: *)
(* position p of the model is index p-1 of the Python code.                *)
(***************************************************************************)
EXTENDS Integers, Sequences, FiniteSets, TLC

\* ------------------------------------------------------------------ bounds
\* largest number of top-level back items below a list-card front
MaxBack == 3
\* largest number of delimiter lines in the body of a document
MaxBodyDelims == 2
\* most double-tilde spans in one line
MaxSpans == 10
\* most headings before a list
MaxHeadings == 3

\* ----------------------------------------------------------- string helpers
RECURSIVE Flatten(_)
Flatten(ss) == IF ss = <<>> THEN <<>> ELSE Head(ss) \o Flatten(Tail(ss))

\* s[a..b], empty when b < a
Sub(s, a, b) == IF b < a THEN <<>> ELSE SubSeq(s, a, b)

\* p occurs in s starting at position i
OccursAt(s, p, i) ==
    /\ i >= 1
    /\ i + Len(p) - 1 <= Len(s)
    /\ \A n \in 1..Len(p) : s[i + n - 1] = p[n]

\* position of the leftmost occurrence of p in s at or after position from, 0 if none
FindFrom(s, p, from) ==
    LET hits == {i \in from..(Len(s) - Len(p) + 1) : OccursAt(s, p, i)}
    IN IF hits = {} THEN 0 ELSE CHOOSE i \in hits : \A h \in hits : i <= h

\* Python: p in s
Contains(s, p) == FindFrom(s, p, 1) # 0

\* Python: s.split(p, 1), a list of one or two strings
SplitOnce(s, p) ==
    LET i == FindFrom(s, p, 1)
    IN IF i = 0 THEN <<s>>
       ELSE <<Sub(s, 1, i - 1), Sub(s, i + Len(p), Len(s))>>

IsSpace(ch) == ch \in {" ", "\n", "\t"}

\* Python: s.strip()
Strip(s) ==
    LET keep == {i \in 1..Len(s) : ~IsSpace(s[i])}
    IN IF keep = {} THEN <<>>
       ELSE LET lo == CHOOSE i \in keep : \A h \in keep : i <= h
                hi == CHOOSE i \in keep : \A h \in keep : i >= h
            IN SubSeq(s, lo, hi)

\* the characters Python's \w matches, among those the documents use
WordChars ==
    {"A", "B", "Q", "R", "a", "b", "c", "d", "e", "g", "h", "i", "l", "m", "n",
     "r", "s", "t", "x", "0", "1", "2", "3", "4", "5", "6", "7", "8", "9", "_"}
IsWord(ch) == ch \in WordChars

DigitChars == <<"0", "1", "2", "3", "4", "5", "6", "7", "8", "9">>
\* Python: int(ch) for one decimal digit
DigitVal(ch) == (CHOOSE d \in 1..10 : DigitChars[d] = ch) - 1
\* Python: str(n) for n >= 0
RECURSIVE Str(_)
Str(n) == IF n < 10 THEN <<DigitChars[n + 1]>>
          ELSE Str(n \div 10) \o <<DigitChars[(n % 10) + 1]>>

\* ------------------------------------------------------------- const.py
FORWARD == "forward"
BACKWARD == "backward"
BIDIRECTIONAL == "bidirectional"
SymbolDirection == {FORWARD, BACKWARD, BIDIRECTIONAL}

INLINE_SYMBOL(direction) ==
    CASE direction = FORWARD -> <<"=", "=", ">">>
      [] direction = BACKWARD -> <<"<", "=", "=">>
      [] direction = BIDIRECTIONAL -> <<"<", "=", "=", ">">>

FILE_SPLIT_PATTERN == <<"-", "-", "-", "\n">>

\* the declared field names of the two note models, in order
BASIC_CONTEXT_MODEL == <<"FilePath", "Context", "Front", "Back">>
CLOZE_CONTEXT_MODEL == <<"FilePath", "Context", "Text">>

\* the tag names the code tests for
CARD == <<"c", "a", "r", "d">>
INCREMENTAL == <<"i", "n", "c", "r", "e", "m", "e", "n", "t", "a", "l">>

\* ------------------------------------------------------ direction detection
NONE == "none"

_detect_symbol_direction_fwd_first(content) ==
    IF Contains(content, INLINE_SYMBOL(FORWARD)) THEN FORWARD
    ELSE IF Contains(content, INLINE_SYMBOL(BACKWARD)) THEN BACKWARD
    ELSE IF Contains(content, INLINE_SYMBOL(BIDIRECTIONAL)) THEN BIDIRECTIONAL
    ELSE NONE

_detect_symbol_direction(content) ==
    IF Contains(content, INLINE_SYMBOL(BIDIRECTIONAL)) THEN BIDIRECTIONAL
    ELSE IF Contains(content, INLINE_SYMBOL(FORWARD)) THEN FORWARD
    ELSE IF Contains(content, INLINE_SYMBOL(BACKWARD)) THEN BACKWARD
    ELSE NONE

\* ------------------------------------------------------------- tag pattern
\* the pattern #[\w/][\w/-]*\w tried at position i of s: the position of the
\* last character of the (greedy) match, 0 when there is no match at i
TagEnd(s, i) ==
    IF ~(i + 2 <= Len(s) /\ s[i] = "#" /\ (IsWord(s[i + 1]) \/ s[i + 1] = "/"))
    THEN 0
    ELSE LET run == {j \in (i + 2)..Len(s) :
                        \A n \in (i + 2)..j : IsWord(s[n]) \/ s[n] \in {"/", "-"}}
             ends == {e \in run : IsWord(s[e])}
         IN IF ends = {} THEN 0
            ELSE CHOOSE e \in ends : \A h \in ends : e >= h

\* Python: re.sub(tag_pattern, '', s), scanning from position i
RECURSIVE RemoveTagsFrom(_, _)
RemoveTagsFrom(s, i) ==
    IF i > Len(s) THEN <<>>
    ELSE LET e == TagEnd(s, i)
         IN IF e # 0 THEN RemoveTagsFrom(s, e + 1)
            ELSE <<s[i]>> \o RemoveTagsFrom(s, i + 1)

\* Python: set(re.findall(r"#([\w/][\w/-]*\w)", s)), scanning from position i
RECURSIVE FindTagsFrom(_, _)
FindTagsFrom(s, i) ==
    IF i > Len(s) THEN {}
    ELSE LET e == TagEnd(s, i)
         IN IF e # 0 THEN {SubSeq(s, i + 1, e)} \cup FindTagsFrom(s, e + 1)
            ELSE FindTagsFrom(s, i + 1)

_extract_tags(full_content_after_symbol) == FindTagsFrom(full_content_after_symbol, 1)

\* ----------------------------------------------------------- cloze pattern
TILDES == <<"~", "~">>

\* the pattern ~~(\S(?:.*?\S)?)~~ tried at position i of s: the position of the
\* last character of the (lazy) group, 0 when there is no match at i
ClozeGroupEnd(s, i) ==
    IF ~(OccursAt(s, TILDES, i) /\ i + 2 <= Len(s) /\ ~IsSpace(s[i + 2])) THEN 0
    ELSE LET ends == {e \in (i + 2)..Len(s) :
                         /\ ~IsSpace(s[e])
                         /\ OccursAt(s, TILDES, e + 1)
                         /\ \A n \in (i + 2)..e : s[n] # "\n"}
         IN IF ends = {} THEN 0
            ELSE CHOOSE e \in ends : \A h \in ends : e <= h

\* Python: cloze_pattern.search(s)
ClozeSearch(s) == \E i \in 1..Len(s) : ClozeGroupEnd(s, i) # 0

\* Python: cloze_pattern.sub(r"{{c0:: \1 }}", s), scanning from position i
RECURSIVE ClozeSubFrom(_, _)
ClozeSubFrom(s, i) ==
    IF i > Len(s) THEN <<>>
    ELSE LET e == ClozeGroupEnd(s, i)
         IN IF e # 0
            THEN <<"{", "{", "c", "0", ":", ":", " ">> \o SubSeq(s, i + 2, e)
                    \o <<" ", "}", "}">> \o ClozeSubFrom(s, e + 3)
            ELSE <<s[i]>> \o ClozeSubFrom(s, i + 1)

\* lines 223-226 with the search pattern (0):: in place of {{c(0)::
RECURSIVE Renumber_unanchored(_, _)
Renumber_unanchored(clozed_content, m) ==
    LET at == FindFrom(clozed_content, <<"0", ":", ":">>, 1)
    IN IF at = 0 \/ m > MaxSpans + 2 THEN clozed_content
       ELSE Renumber_unanchored(Sub(clozed_content, 1, at - 1) \o Str(m)
                        \o Sub(clozed_content, at + 1, Len(clozed_content)), m + 1)

\* the while loop that replaces the "0" of the leftmost {{c0:: by str(m)
RECURSIVE Renumber(_, _)
Renumber(clozed_content, m) ==
    LET at == FindFrom(clozed_content, <<"{", "{", "c", "0", ":", ":">>, 1)
    IN IF at = 0 THEN clozed_content
       ELSE Renumber(Sub(clozed_content, 1, at + 2) \o Str(m)
                        \o Sub(clozed_content, at + 4, Len(clozed_content)), m + 1)

\* ------------------------------------------------- tokens (markdown-it)
\* A token: its type, level, raw content, children (inline tokens only), tag,
\* and ref, the position in the document's sequence of the object a write to
\* the token lands in (0 for an object that is not part of that sequence).
Tok(type, level) ==
    [type |-> type, level |-> level, content |-> <<>>, children |-> <<>>,
     tag |-> <<>>, ref |-> 0]

\* a child of an inline token
Child(type, level, content) == [type |-> type, level |-> level, content |-> content]

\* md.parseInline on the inline markup the documents use: text and *emphasis*
RECURSIVE InlineChildren(_)
InlineChildren(content) ==
    LET a == FindFrom(content, <<"*">>, 1)
        b == IF a = 0 THEN 0 ELSE FindFrom(content, <<"*">>, a + 2)
    IN IF content = <<>> THEN <<>>
       ELSE IF b = 0 THEN <<Child("text", 0, content)>>
       ELSE (IF a > 1 THEN <<Child("text", 0, Sub(content, 1, a - 1))>> ELSE <<>>)
            \o <<Child("em_open", 0, <<>>),
                 Child("text", 1, Sub(content, a + 1, b - 1)),
                 Child("em_close", 0, <<>>)>>
            \o InlineChildren(Sub(content, b + 1, Len(content)))

Inline(content, level) ==
    [Tok("inline", level) EXCEPT !.content = content,
                                 !.children = InlineChildren(content)]

Paragraph(content, level) ==
    <<Tok("paragraph_open", level), Inline(content, level + 1),
      Tok("paragraph_close", level)>>

Heading(h, content) ==
    <<[Tok("heading_open", 0) EXCEPT !.tag = <<"h">> \o Str(h)],
      Inline(content, 1),
      [Tok("heading_close", 0) EXCEPT !.tag = <<"h">> \o Str(h)]>>

ListOpen(kind) == IF kind = "oli" THEN "ordered_list_open" ELSE "bullet_list_open"
ListClose(kind) == IF kind = "oli" THEN "ordered_list_close" ELSE "bullet_list_close"

\* ------------------------------------------------------------- documents
\* A document is written as an outline: a sequence of lines, each a heading
\* ("h", with its level), a top-level paragraph ("p"), a delimiter line
\* ("hr"), a bullet or ordered list item ("li", "oli") at a nesting depth, or a
\* further paragraph of the item open at that depth ("cont").
Line(k, d, c) == [k |-> k, d |-> d, h |-> 0, c |-> c]
HLine(h, c) == [k |-> "h", d |-> 0, h |-> h, c |-> c]

\* the closing tokens of the items and lists open deeper than depth n;
\* st holds the kind of the list open at each depth
RECURSIVE CloseTo(_, _)
CloseTo(st, n) ==
    IF Len(st) <= n THEN <<>>
    ELSE LET x == Len(st) - 1
         IN <<Tok("list_item_close", 2 * x + 1), Tok(ListClose(st[Len(st)]), 2 * x)>>
            \o CloseTo(SubSeq(st, 1, x), n)

\* md.parse on an outline: the block tokens with markdown-it's levels
RECURSIVE BlockTokens(_, _)
BlockTokens(lines, st) ==
    IF lines = <<>> THEN CloseTo(st, 0)
    ELSE LET ln == Head(lines)
             d == ln.d
         IN CASE ln.k \in {"li", "oli"} /\ Len(st) > d /\ st[d + 1] = ln.k ->
                    CloseTo(st, d + 1)
                    \o <<Tok("list_item_close", 2 * d + 1), Tok("list_item_open", 2 * d + 1)>>
                    \o Paragraph(ln.c, 2 * d + 2)
                    \o BlockTokens(Tail(lines), SubSeq(st, 1, d + 1))
              [] ln.k \in {"li", "oli"} /\ ~(Len(st) > d /\ st[d + 1] = ln.k) ->
                    CloseTo(st, d)
                    \o <<Tok(ListOpen(ln.k), 2 * d), Tok("list_item_open", 2 * d + 1)>>
                    \o Paragraph(ln.c, 2 * d + 2)
                    \o BlockTokens(Tail(lines), Sub(st, 1, d) \o <<ln.k>>)
              [] ln.k = "cont" ->
                    CloseTo(st, d + 1) \o Paragraph(ln.c, 2 * d + 2)
                    \o BlockTokens(Tail(lines), Sub(st, 1, d + 1))
              [] ln.k = "h" ->
                    CloseTo(st, 0) \o Heading(ln.h, ln.c) \o BlockTokens(Tail(lines), <<>>)
              [] ln.k = "p" ->
                    CloseTo(st, 0) \o Paragraph(ln.c, 0) \o BlockTokens(Tail(lines), <<>>)
              [] ln.k = "hr" ->
                    CloseTo(st, 0) \o <<Tok("hr", 0)>> \o BlockTokens(Tail(lines), <<>>)

\* read_file: the tokens numbered by their position
SetRefs(ts) == [p \in 1..Len(ts) |-> [ts[p] EXCEPT !.ref = p]]

RECURSIVE Spaces(_)
Spaces(n) == IF n <= 0 THEN <<>> ELSE <<" ">> \o Spaces(n - 1)
RECURSIVE Hashes(_)
Hashes(n) == IF n <= 0 THEN <<>> ELSE <<"#">> \o Hashes(n - 1)

\* the markdown text of one outline line
LineText(ln) ==
    CASE ln.k = "li" -> Spaces(2 * ln.d) \o <<"-", " ">> \o ln.c \o <<"\n">>
      [] ln.k = "oli" -> Spaces(2 * ln.d) \o <<"1", ".", " ">> \o ln.c \o <<"\n">>
      [] ln.k = "cont" -> <<"\n">> \o Spaces(2 * ln.d + 2) \o ln.c \o <<"\n">>
      [] ln.k = "h" -> <<"\n">> \o Hashes(ln.h) \o <<" ">> \o ln.c \o <<"\n">>
      [] ln.k = "p" -> <<"\n">> \o ln.c \o <<"\n", "\n">>
      [] ln.k = "hr" -> <<"\n">> \o FILE_SPLIT_PATTERN

BodyText(lines) == Flatten([n \in 1..Len(lines) |-> LineText(lines[n])])

\* the front matter block: has says whether the document has one, tags is the
\* sequence of tag names it declares
FrontMatter(has, tags) == [has |-> has, tags |-> tags]
RECURSIVE TagList(_)
TagList(names) ==
    IF names = <<>> THEN <<>>
    ELSE Head(names) \o (IF Len(names) > 1 THEN <<",", " ">> ELSE <<>>)
         \o TagList(Tail(names))
FrontMatterText(fm) ==
    IF ~fm.has THEN <<>>
    ELSE FILE_SPLIT_PATTERN \o <<"t", "a", "g", "s", ":", " ", "[">> \o TagList(fm.tags)
         \o <<"]", "\n">> \o FILE_SPLIT_PATTERN
\* yaml.safe_load(front_matter.content).get('tags', []) as a set
FrontMatterTags(fm) ==
    IF ~fm.has THEN {} ELSE {fm.tags[n] : n \in 1..Len(fm.tags)}

\* ------------------------------------------------------- region scanner
UNBOUND == 0

IndexCard(i, j, k, direction, l) ==
    [list_open_token_index |-> i, inline_token_index |-> j,
     symbol_child_index |-> k, symbol_direction |-> direction,
     list_close_token_index |-> l]

IndexCloze(i, j, clozed_tokens) ==
    [list_open_token_index |-> i, inline_token_index |-> j,
     clozed_tokens |-> clozed_tokens]

\* lines 198-202: the first level-0 text child holding a glyph, 0 if none
SymbolChild(inline) ==
    LET ks == {k \in 1..Len(inline.children) :
                  /\ inline.children[k].type = "text"
                  /\ inline.children[k].level = 0
                  /\ _detect_symbol_direction(inline.children[k].content) # NONE}
    IN IF ks = {} THEN 0 ELSE CHOOSE k \in ks : \A h \in ks : k <= h

\* lines 205-207 with a search that ends one past the last token when it finds
\* no closing token
FindClose_past_end(tokens, i, j, lprev) ==
    LET hits == {l \in (j + 1)..Len(tokens) :
                    /\ tokens[l].type = "list_item_close"
                    /\ tokens[l].level = tokens[i].level}
    IN IF hits # {} THEN CHOOSE l \in hits : \A h \in hits : l <= h
       ELSE Len(tokens) + 1

\* lines 205-207: the value of the loop variable l after the search for the
\* closing token.  The loop leaves l at its last value when it does not break,
\* and does not assign it at all when the range is empty: l then keeps the
\* value lprev of an earlier search (UNBOUND when there was none).
FindClose(tokens, i, j, lprev) ==
    LET hits == {l \in (j + 1)..Len(tokens) :
                    /\ tokens[l].type = "list_item_close"
                    /\ tokens[l].level = tokens[i].level}
    IN IF hits # {} THEN CHOOSE l \in hits : \A h \in hits : l <= h
       ELSE IF j + 1 <= Len(tokens) THEN Len(tokens)
       ELSE lprev

\* lines 219-233: the rewritten inline token of a cloze span region
ClozedTokens(inline) ==
    <<Inline(Renumber(ClozeSubFrom(inline.content, 1), 1), 0)>>

\* the state of the scan: the regions found, the loop variable l, and whether
\* the scan raised (the read of an unbound l)
ScanState(cards, clozes, l, raised) ==
    [cards |-> cards, clozes |-> clozes, l |-> l, raised |-> raised]

\* lines 195-237: the inner loop over j for the list item opened at i
RECURSIVE ScanItem(_, _, _, _)
ScanItem(tokens, i, j, st) ==
    IF j > Len(tokens) \/ st.raised THEN st
    ELSE IF tokens[j].type = "inline" THEN
        LET inline == tokens[j]
            k == SymbolChild(inline)
            l == IF k = 0 THEN st.l ELSE FindClose(tokens, i, j, st.l)
            raised == k # 0 /\ l = UNBOUND
            cards == IF k = 0 \/ raised THEN st.cards
                     ELSE Append(st.cards,
                            IndexCard(i, j, k,
                               _detect_symbol_direction(inline.children[k].content), l))
            clozes == IF raised \/ ~ClozeSearch(inline.content) THEN st.clozes
                      ELSE Append(st.clozes, IndexCloze(i, j, ClozedTokens(inline)))
        IN ScanItem(tokens, i, j + 1, ScanState(cards, clozes, l, raised))
    ELSE IF tokens[j].type \in {"list_item_close", "bullet_list_open", "ordered_list_open"}
    THEN st
    ELSE ScanItem(tokens, i, j + 1, st)

\* lines 192-193: the outer loop over i
RECURSIVE ScanAll(_, _, _)
ScanAll(tokens, i, st) ==
    IF i > Len(tokens) \/ st.raised THEN st
    ELSE IF tokens[i].type = "list_item_open"
    THEN ScanAll(tokens, i + 1, ScanItem(tokens, i, i + 1, st))
    ELSE ScanAll(tokens, i + 1, st)

_parse_regions_of_interest(tokens) ==
    ScanAll(tokens, 1, ScanState(<<>>, <<>>, UNBOUND, FALSE))

\* -------------------------------------------------- rendered field strings
\* A field string is a sequence of pieces: a literal text, the rendering of a
\* token sequence, or such a rendering with its trailing </ul> and </li>
\* removed.  The empty string is the empty sequence, + is concatenation.
Lit(text) == <<[kind |-> "literal", tokens |-> <<>>, text |-> text]>>
render(list_of_tokens) ==
    <<[kind |-> "render", tokens |-> list_of_tokens, text |-> <<>>]>>
_strip_trailing_closing_tags(context) ==
    [n \in 1..Len(context) |->
        IF n = Len(context) /\ context[n].kind = "render"
        THEN [context[n] EXCEPT !.kind = "render_stripped"] ELSE context[n]]

\* line 160 with the declared fields that the dictionary lacks left out
_field_dict_to_list_present_only(field_dict, model) ==
    LET present == SelectSeq(model, LAMBDA name : name \in DOMAIN field_dict)
    IN [n \in 1..Len(present) |-> field_dict[present[n]]]

\* field_dict.get(name, "") for each declared field of the model, in order
_field_dict_to_list(field_dict, model) ==
    [n \in 1..Len(model) |->
        IF model[n] \in DOMAIN field_dict THEN field_dict[model[n]] ELSE <<>>]

Note(model, fields, tags) == [model |-> model, fields |-> fields, tags |-> tags]

\* Path(file_path).name
_build_filepath_context == Lit(<<"n", ".", "m", "d">>)

\* -------------------------------------------------------- cloze injection
\* a copy that shares the token objects with its argument
deepcopy_shared(ts) == ts
\* copy.deepcopy: every token of the result is a new object
deepcopy(ts) == [p \in 1..Len(ts) |-> [ts[p] EXCEPT !.ref = 0]]

\* lines 244-247 with no spacing before the opening braces in any case
_create_cloze_tokens_no_spacing(cloze_num, is_list_item) ==
    <<Child("text", 0, <<"{", "{", "c">> \o Str(cloze_num) \o <<":", ":", " ">>),
      Child("text", 0, <<" ", "}", "}">>)>>

_create_cloze_tokens(cloze_num, is_list_item) ==
    <<Child("text", 0, (IF is_list_item THEN <<>> ELSE <<" ">>)
                        \o <<"{", "{", "c">> \o Str(cloze_num) \o <<":", ":", " ">>),
      Child("text", 0, <<" ", "}", "}">>)>>

\* lines 250-255 with the opening marker appended instead of inserted first
_add_cloze_to_inline_token_appended(token, cloze_num, is_list_item) ==
    IF token.type = "inline"
    THEN LET ct == _create_cloze_tokens(cloze_num, is_list_item)
         IN [token EXCEPT !.children = token.children \o <<ct[1], ct[2]>>]
    ELSE token

_add_cloze_to_inline_token(token, cloze_num, is_list_item) ==
    IF token.type = "inline"
    THEN LET ct == _create_cloze_tokens(cloze_num, is_list_item)
         IN [token EXCEPT !.children = <<ct[1]>> \o token.children \o <<ct[2]>>]
    ELSE token

\* "for token in ...: if inline: add cloze; break": the first inline token of
\* ts (the last one when reversed) gets the markers
ClozeFirstInline(ts, reversed) ==
    LET ps == {p \in 1..Len(ts) : ts[p].type = "inline"}
    IN IF ps = {} THEN ts
       ELSE LET at == IF reversed THEN CHOOSE p \in ps : \A q \in ps : p >= q
                      ELSE CHOOSE p \in ps : \A q \in ps : p <= q
            IN [ts EXCEPT ![at] = _add_cloze_to_inline_token(ts[at], 1, FALSE)]

\* lines 310-319 with the cloze index advanced at every list_item_close
RECURSIVE ClozeListItems_every_close(_, _, _, _, _)
ClozeListItems_every_close(ts, p, current_nesting, current_cloze_index, incremental) ==
    IF p > Len(ts) THEN ts
    ELSE IF ts[p].type = "list_item_open"
    THEN ClozeListItems_every_close(ts, p + 1, current_nesting + 1, current_cloze_index,
                                    incremental)
    ELSE IF ts[p].type = "list_item_close"
    THEN ClozeListItems_every_close(ts, p + 1, current_nesting - 1,
            IF incremental THEN current_cloze_index + 1 ELSE current_cloze_index,
            incremental)
    ELSE IF current_nesting > 0 /\ ts[p].type = "inline"
    THEN ClozeListItems_every_close(
            [ts EXCEPT ![p] = _add_cloze_to_inline_token(ts[p],
                                 IF incremental THEN current_cloze_index ELSE 1, TRUE)],
            p + 1, current_nesting, current_cloze_index, incremental)
    ELSE ClozeListItems_every_close(ts, p + 1, current_nesting, current_cloze_index,
                                    incremental)

\* lines 310-319: the loop over the back tokens of a list card from position p
RECURSIVE ClozeListItems(_, _, _, _, _)
ClozeListItems(ts, p, current_nesting, current_cloze_index, incremental) ==
    IF p > Len(ts) THEN ts
    ELSE IF ts[p].type = "list_item_open"
    THEN ClozeListItems(ts, p + 1, current_nesting + 1, current_cloze_index, incremental)
    ELSE IF ts[p].type = "list_item_close"
    THEN ClozeListItems(ts, p + 1, current_nesting - 1,
            IF current_nesting - 1 = 0 /\ incremental
            THEN current_cloze_index + 1 ELSE current_cloze_index, incremental)
    ELSE IF current_nesting > 0 /\ ts[p].type = "inline"
    THEN ClozeListItems(
            [ts EXCEPT ![p] = _add_cloze_to_inline_token(ts[p],
                                 IF incremental THEN current_cloze_index ELSE 1, TRUE)],
            p + 1, current_nesting, current_cloze_index, incremental)
    ELSE ClozeListItems(ts, p + 1, current_nesting, current_cloze_index, incremental)

\* lines 276-321 with the Backward branch taken by every direction but Forward
ClozeSynthesis_not_forward(front_tokens, back_tokens, symbol_direction, incremental) ==
    LET is_inline_card == Len(back_tokens) = 1 /\ back_tokens[1].type = "inline"
    IN IF symbol_direction # FORWARD
       THEN LET context_tokens == deepcopy(back_tokens)
                cloze_tokens == ClozeFirstInline(deepcopy(front_tokens), is_inline_card)
            IN [final |-> cloze_tokens \o context_tokens, clozed |-> cloze_tokens]
       ELSE LET context_tokens == deepcopy(front_tokens)
                cloze_tokens ==
                    IF is_inline_card THEN ClozeFirstInline(deepcopy(back_tokens), FALSE)
                    ELSE ClozeListItems(deepcopy(back_tokens), 1, 0, 1, incremental)
            IN [final |-> context_tokens \o cloze_tokens, clozed |-> cloze_tokens]

\* lines 276-321: the token sequence rendered into the Text field (final), and
\* the tokens that received markers (clozed), whose ref tells which objects
\* of the document were written to
ClozeSynthesis(front_tokens, back_tokens, symbol_direction, incremental) ==
    LET is_inline_card == Len(back_tokens) = 1 /\ back_tokens[1].type = "inline"
    IN IF symbol_direction = BACKWARD
       THEN LET context_tokens == deepcopy(back_tokens)
                cloze_tokens == ClozeFirstInline(deepcopy(front_tokens), is_inline_card)
            IN [final |-> cloze_tokens \o context_tokens, clozed |-> cloze_tokens]
       ELSE LET context_tokens == deepcopy(front_tokens)
                cloze_tokens ==
                    IF is_inline_card THEN ClozeFirstInline(deepcopy(back_tokens), FALSE)
                    ELSE ClozeListItems(deepcopy(back_tokens), 1, 0, 1, incremental)
            IN [final |-> context_tokens \o cloze_tokens, clozed |-> cloze_tokens]

\* lines 323-326: the field dictionary of a cloze note
ClozeFieldDict(front_tokens, back_tokens, symbol_direction, incremental,
               filepath_context, list_context) ==
    "Text" :> (list_context
                \o render(ClozeSynthesis(front_tokens, back_tokens, symbol_direction,
                                         incremental).final))
    @@ "FilePath" :> filepath_context

_create_cloze_card(front_tokens, back_tokens, symbol_direction, incremental, tags,
                   filepath_context, list_context) ==
    Note(CLOZE_CONTEXT_MODEL,
         _field_dict_to_list(
            ClozeFieldDict(front_tokens, back_tokens, symbol_direction, incremental,
                           filepath_context, list_context),
            CLOZE_CONTEXT_MODEL),
         tags)

\* the document's tokens after the writes of one synthesis: a token of clozed
\* that is still an object of the document carries its children into it
WriteBack(tokens, clozed) ==
    [p \in 1..Len(tokens) |->
        IF \E q \in 1..Len(clozed) : clozed[q].ref = p
        THEN [tokens[p] EXCEPT !.children =
                clozed[CHOOSE q \in 1..Len(clozed) : clozed[q].ref = p].children]
        ELSE tokens[p]]

\* ---------------------------------------------------------- prior context
\* the heading level the search starts from
MIN_HEADING_INIT == 6

IsCloseOfList(type) ==
    type \in {"list_item_close", "bullet_list_close", "ordered_list_close"}

\* lines 352-383 with the skip ended only by a level below min_level
RECURSIVE PriorContextLoop_skip_below(_, _, _)
PriorContextLoop_skip_below(tokens, p, c) ==
    IF p < 1 THEN c.context_tokens
    ELSE LET token == tokens[p]
         IN IF c.list_search
            THEN LET closes == IsCloseOfList(token.type)
                     min_level == IF closes THEN token.level - 1 ELSE c.min_level
                     skipping == closes \/ c.skipping
                     skipped == skipping /\ ~(token.level < min_level)
                 IN IF skipped
                    THEN PriorContextLoop_skip_below(tokens, p - 1,
                            [c EXCEPT !.min_level = min_level, !.skipping = TRUE])
                    ELSE PriorContextLoop_skip_below(tokens, p - 1,
                            [c EXCEPT !.min_level = min_level, !.skipping = FALSE,
                                      !.context_tokens = Append(@, token),
                                      !.list_search = ~(token.level = 0)])
            ELSE LET kept == /\ token.type = "heading_close"
                             /\ DigitVal(token.tag[2]) < c.min_heading
                     in_heading == kept \/ c.in_heading
                 IN PriorContextLoop_skip_below(tokens, p - 1,
                        [c EXCEPT !.min_heading =
                                      IF kept THEN DigitVal(token.tag[2]) ELSE @,
                                  !.context_tokens =
                                      IF in_heading THEN Append(@, token) ELSE @,
                                  !.in_heading =
                                      in_heading /\ ~(token.type = "heading_open")])

\* lines 352-383 with a heading kept when its level is not above the minimum
RECURSIVE PriorContextLoop_heading_not_above(_, _, _)
PriorContextLoop_heading_not_above(tokens, p, c) ==
    IF p < 1 THEN c.context_tokens
    ELSE LET token == tokens[p]
         IN IF c.list_search
            THEN LET closes == IsCloseOfList(token.type)
                     min_level == IF closes THEN token.level - 1 ELSE c.min_level
                     skipping == closes \/ c.skipping
                     skipped == skipping /\ ~(token.level <= min_level)
                 IN IF skipped
                    THEN PriorContextLoop_heading_not_above(tokens, p - 1,
                            [c EXCEPT !.min_level = min_level, !.skipping = TRUE])
                    ELSE PriorContextLoop_heading_not_above(tokens, p - 1,
                            [c EXCEPT !.min_level = min_level, !.skipping = FALSE,
                                      !.context_tokens = Append(@, token),
                                      !.list_search = ~(token.level = 0)])
            ELSE LET kept == /\ token.type = "heading_close"
                             /\ DigitVal(token.tag[2]) <= c.min_heading
                     in_heading == kept \/ c.in_heading
                 IN PriorContextLoop_heading_not_above(tokens, p - 1,
                        [c EXCEPT !.min_heading =
                                      IF kept THEN DigitVal(token.tag[2]) ELSE @,
                                  !.context_tokens =
                                      IF in_heading THEN Append(@, token) ELSE @,
                                  !.in_heading =
                                      in_heading /\ ~(token.type = "heading_open")])

\* lines 352-383: the backward loop from position p with the loop's variables
\* in c; context_tokens is collected in visiting (reverse document) order
RECURSIVE PriorContextLoop(_, _, _)
PriorContextLoop(tokens, p, c) ==
    IF p < 1 THEN c.context_tokens
    ELSE LET token == tokens[p]
         IN IF c.list_search
            THEN LET closes == IsCloseOfList(token.type)
                     min_level == IF closes THEN token.level - 1 ELSE c.min_level
                     skipping == closes \/ c.skipping
                     skipped == skipping /\ ~(token.level <= min_level)
                 IN IF skipped
                    THEN PriorContextLoop(tokens, p - 1,
                            [c EXCEPT !.min_level = min_level, !.skipping = TRUE])
                    ELSE PriorContextLoop(tokens, p - 1,
                            [c EXCEPT !.min_level = min_level, !.skipping = FALSE,
                                      !.context_tokens = Append(@, token),
                                      !.list_search = ~(token.level = 0)])
            ELSE LET kept == /\ token.type = "heading_close"
                             /\ DigitVal(token.tag[2]) < c.min_heading
                     in_heading == kept \/ c.in_heading
                 IN PriorContextLoop(tokens, p - 1,
                        [c EXCEPT !.min_heading =
                                      IF kept THEN DigitVal(token.tag[2]) ELSE @,
                                  !.context_tokens =
                                      IF in_heading THEN Append(@, token) ELSE @,
                                  !.in_heading =
                                      in_heading /\ ~(token.type = "heading_open")])

Reverse(ts) == [p \in 1..Len(ts) |-> ts[Len(ts) + 1 - p]]

\* tokens[list_open_token_index-1:None:-1] starts at the token before the list
\* item, and at the last token of the sequence when the item is the first token
_find_prior_context(tokens, list_open_token_index) ==
    Reverse(PriorContextLoop(tokens,
        IF list_open_token_index = 1 THEN Len(tokens) ELSE list_open_token_index - 1,
        [context_tokens |-> <<>>,
         min_level |-> tokens[list_open_token_index].level - 1,
         list_search |-> TRUE, in_heading |-> FALSE,
         min_heading |-> MIN_HEADING_INIT, skipping |-> FALSE]))

\* the first component of the result of _build_context
_build_context(tokens, list_open_token_index, file_front_context, has_file_card) ==
    LET context_tokens == _find_prior_context(tokens, list_open_token_index)
        list_context == _strip_trailing_closing_tags(
                            IF context_tokens # <<>> THEN render(context_tokens) ELSE <<>>)
    IN list_context \o (IF has_file_card THEN file_front_context ELSE <<>>)

\* -------------------------------------------------------------- file card
\* re.split without the limit on the number of splits
RECURSIVE ReSplit_nolimit(_, _)
ReSplit_nolimit(text, maxsplit) ==
    LET at == FindFrom(text, FILE_SPLIT_PATTERN, 1)
    IN IF at = 0 THEN <<text>>
       ELSE <<Sub(text, 1, at - 1)>>
            \o ReSplit_nolimit(Sub(text, at + Len(FILE_SPLIT_PATTERN), Len(text)),
                               maxsplit)

\* Python: re.split(FILE_SPLIT_PATTERN, text, maxsplit)
RECURSIVE ReSplit(_, _)
ReSplit(text, maxsplit) ==
    LET at == FindFrom(text, FILE_SPLIT_PATTERN, 1)
    IN IF maxsplit = 0 \/ at = 0 THEN <<text>>
       ELSE <<Sub(text, 1, at - 1)>>
            \o ReSplit(Sub(text, at + Len(FILE_SPLIT_PATTERN), Len(text)), maxsplit - 1)

\* the number of splits line 429 asks for
FILE_MAXSPLIT == 3

\* md.parse on a part of the document text: the tokens of the outline lines
\* the part is the text of (a part that is no run of whole blocks of the
\* document, such as the front matter's yaml, parses as one paragraph)
md_parse(part, outline) ==
    LET n == Len(outline)
        runs == {ab \in (1..(n + 1)) \X (0..n) :
                    /\ ab[1] <= ab[2] + 1
                    /\ (ab[1] = 1 \/ outline[ab[1] - 1].k = "hr")
                    /\ (ab[2] = n \/ outline[ab[2] + 1].k = "hr")
                    /\ Strip(BodyText(Sub(outline, ab[1], ab[2]))) = Strip(part)}
    IN IF runs # {}
       THEN LET ab == CHOOSE ab \in runs : TRUE
            IN BlockTokens(Sub(outline, ab[1], ab[2]), <<>>)
       ELSE Paragraph(Strip(part), 0)

\* ------------------------------------------------- card region synthesis
\* lines 478-482 with the whole token sequence as the range searched
has_immediate_nested_list_anywhere(tokens, region) ==
    \E j \in 1..Len(tokens) :
        /\ tokens[j].type \notin {"paragraph_open", "paragraph_close"}
        /\ tokens[j].type = "bullet_list_open"

\* lines 478-482
has_immediate_nested_list(tokens, region) ==
    \E j \in (region.inline_token_index + 1)..(region.list_close_token_index - 1) :
        /\ tokens[j].type \notin {"paragraph_open", "paragraph_close"}
        /\ tokens[j].type = "bullet_list_open"

\* line 500 with the slice ended before the closing token
ListCardBack_before_close(tokens, region) ==
    Sub(tokens, region.inline_token_index + 1, region.list_close_token_index - 1)

\* line 500: tokens[inline_token_index + 1 : list_close_token_index + 1]
ListCardBack(tokens, region) ==
    Sub(tokens, region.inline_token_index + 1, region.list_close_token_index)

\* lines 462-518 for one region: the tags of the line, whether the region is
\* dropped, and the front and back tokens handed to _create_cloze_card
CardParts(tokens, region) ==
    LET inline_token == tokens[region.inline_token_index]
        child == inline_token.children[region.symbol_child_index]
        symbol_text == INLINE_SYMBOL(region.symbol_direction)
        left_text == SplitOnce(child.content, symbol_text)[1]
        right_text == SplitOnce(child.content, symbol_text)[2]
        full_content_after_symbol == SplitOnce(inline_token.content, symbol_text)[2]
        content_without_tags == Strip(RemoveTagsFrom(full_content_after_symbol, 1))
        is_list_card == content_without_tags = <<>>
        before == Sub(tokens, region.list_open_token_index, region.inline_token_index - 1)
        modified_inline ==
            [inline_token EXCEPT
                !.ref = 0,
                !.children = [@ EXCEPT ![region.symbol_child_index] =
                    [child EXCEPT !.content = left_text \o symbol_text \o right_text]]]
        front_children == Sub(inline_token.children, 1, region.symbol_child_index - 1)
                          \o <<[child EXCEPT !.content = left_text \o symbol_text]>>
        back_children ==
            IF Strip(right_text) # <<>>
            THEN <<[child EXCEPT !.content = right_text]>>
                 \o Sub(inline_token.children, region.symbol_child_index + 1,
                        Len(inline_token.children))
            ELSE <<>>
        front_inline == [inline_token EXCEPT !.ref = 0, !.children = front_children]
        back_inline == [inline_token EXCEPT !.ref = 0, !.children = back_children]
    IN [tags |-> _extract_tags(full_content_after_symbol),
        is_list_card |-> is_list_card,
        dropped |-> is_list_card /\ ~has_immediate_nested_list(tokens, region),
        front_tokens |-> before \o <<IF is_list_card THEN modified_inline
                                     ELSE front_inline>>,
        back_tokens |->
            IF is_list_card
            THEN ListCardBack(tokens, region)
            ELSE IF back_children # <<>> THEN <<back_inline>> ELSE <<>>]

\* ------------------------------------------------------------ the program
VARIABLES
    fm,                 \* the document: its front matter
    outline,            \* the document: its body, as an outline
    text,               \* read_file: the text of the file
    tokens,             \* read_file: the token sequence (front matter removed)
    tags,               \* extract_cards: the local variable tags
    file_front_context, \* extract_cards: the rendered front of the file card
    card_indices,       \* the CardRegions of the scan
    cloze_indices,      \* the ClozeRegions of the scan
    r,                  \* position of the next CardRegion to synthesize
    q,                  \* position of the next ClozeRegion to synthesize
    notes,              \* the list of notes built so far
    origin,             \* for each note, the region it was built from (history)
    field_dicts,        \* for each note, the field dictionary handed to
                        \* _field_dict_to_list for it (history)
    pc                  \* where extract_cards is: file, scan, regions, done, error

vars == <<fm, outline, text, tokens, tags, file_front_context, card_indices,
          cloze_indices, r, q, notes, origin, field_dicts, pc>>

doc == <<fm, outline, text>>

\* an exception leaves extract_cards: the caller receives no list
Raise ==
    /\ pc' = "error"
    /\ notes' = <<>>
    /\ origin' = <<>>
    /\ field_dicts' = <<>>

\* the history of a note: built from the file, or from the at-th CardRegion or
\* ClozeRegion of the scan
Origin(kind, at) == [kind |-> kind, at |-> at]

\* lines 427-454, "card" in tags, the split gives front and back
FileCard ==
    /\ pc = "file"
    /\ CARD \in tags
    /\ LET parts == ReSplit(text, FILE_MAXSPLIT)
       IN /\ Len(parts) - 2 = 2
          /\ LET front_tokens == md_parse(parts[3], outline)
                 back_tokens == md_parse(parts[4], outline)
                 field_dict == "FilePath" :> _build_filepath_context
                               @@ "Context" :> <<>>
                               @@ "Front" :> render(front_tokens)
                               @@ "Back" :> render(back_tokens)
             IN /\ notes' = Append(notes,
                      IF INCREMENTAL \in tags
                      THEN _create_cloze_card(front_tokens, back_tokens, FORWARD, TRUE,
                                              tags, _build_filepath_context, <<>>)
                      ELSE Note(BASIC_CONTEXT_MODEL,
                                _field_dict_to_list(field_dict, BASIC_CONTEXT_MODEL),
                                tags))
                /\ field_dicts' = Append(field_dicts,
                      IF INCREMENTAL \in tags
                      THEN ClozeFieldDict(front_tokens, back_tokens, FORWARD, TRUE,
                                          _build_filepath_context, <<>>)
                      ELSE field_dict)
                /\ file_front_context' = render(front_tokens)
    /\ origin' = Append(origin, Origin("file", 0))
    /\ pc' = "scan"
    /\ UNCHANGED <<doc, tokens, tags, card_indices, cloze_indices, r, q>>

\* line 429 with the failed unpacking caught and the file card skipped
FileCardShapeError_swallowed ==
    /\ pc = "file"
    /\ CARD \in tags
    /\ Len(ReSplit(text, FILE_MAXSPLIT)) - 2 # 2
    /\ pc' = "scan"
    /\ UNCHANGED <<doc, tokens, tags, file_front_context, card_indices, cloze_indices,
                   r, q, notes, origin,
                   field_dicts>>

\* line 429: the unpacking of the split into front and back fails
FileCardShapeError ==
    /\ pc = "file"
    /\ CARD \in tags
    /\ Len(ReSplit(text, FILE_MAXSPLIT)) - 2 # 2
    /\ Raise
    /\ UNCHANGED <<doc, tokens, tags, file_front_context, card_indices, cloze_indices, r, q>>

\* line 427: the file declares no card tag
NoFileCard ==
    /\ pc = "file"
    /\ CARD \notin tags
    /\ pc' = "scan"
    /\ UNCHANGED <<doc, tokens, tags, file_front_context, card_indices, cloze_indices,
                   r, q, notes, origin,
                   field_dicts>>

\* line 459
Scan ==
    /\ pc = "scan"
    /\ LET st == _parse_regions_of_interest(tokens)
       IN /\ ~st.raised
          /\ card_indices' = st.cards
          /\ cloze_indices' = st.clozes
    /\ pc' = "regions"
    /\ UNCHANGED <<doc, tokens, tags, file_front_context, r, q, notes, origin,
                   field_dicts>>

\* line 214 reads the loop variable l, which no loop has assigned
ScanRaise ==
    /\ pc = "scan"
    /\ _parse_regions_of_interest(tokens).raised
    /\ Raise
    /\ UNCHANGED <<doc, tokens, tags, file_front_context, card_indices, cloze_indices, r, q>>

\* lines 461-484: a list-card candidate without nested bullet list is skipped
CardDiscard ==
    /\ pc = "regions"
    /\ r <= Len(card_indices)
    /\ LET parts == CardParts(tokens, card_indices[r])
       IN /\ parts.dropped
          /\ tags' = parts.tags
    /\ r' = r + 1
    /\ UNCHANGED <<doc, tokens, file_front_context, card_indices, cloze_indices, q,
                   notes, origin, field_dicts, pc>>

\* lines 461-532: the note of one separator-card region
CardEmit ==
    /\ pc = "regions"
    /\ r <= Len(card_indices)
    /\ LET region == card_indices[r]
           parts == CardParts(tokens, region)
           list_context == _build_context(tokens, region.list_open_token_index,
                                          file_front_context, CARD \in parts.tags)
           is_incremental == INCREMENTAL \in parts.tags
       IN /\ ~parts.dropped
          /\ tags' = parts.tags
          /\ notes' = Append(notes,
                _create_cloze_card(parts.front_tokens, parts.back_tokens,
                                   region.symbol_direction, is_incremental, parts.tags,
                                   _build_filepath_context, list_context))
          /\ field_dicts' = Append(field_dicts,
                ClozeFieldDict(parts.front_tokens, parts.back_tokens,
                               region.symbol_direction, is_incremental,
                               _build_filepath_context, list_context))
          /\ tokens' = WriteBack(tokens,
                ClozeSynthesis(parts.front_tokens, parts.back_tokens,
                               region.symbol_direction, is_incremental).clozed)
    /\ origin' = Append(origin, Origin("card", r))
    /\ r' = r + 1
    /\ UNCHANGED <<doc, file_front_context, card_indices, cloze_indices, q, pc>>

\* lines 534-550: the note of one cloze-span region
ClozeEmit ==
    /\ pc = "regions"
    /\ r > Len(card_indices)
    /\ q <= Len(cloze_indices)
    /\ LET region == cloze_indices[q]
           list_context == _build_context(tokens, region.list_open_token_index,
                                          file_front_context, CARD \in tags)
           text_tokens == Sub(tokens, region.list_open_token_index,
                              region.inline_token_index - 1) \o region.clozed_tokens
           field_dict == "Text" :> (list_context \o render(text_tokens))
                         @@ "FilePath" :> _build_filepath_context
       IN /\ notes' = Append(notes,
                Note(CLOZE_CONTEXT_MODEL,
                     _field_dict_to_list(field_dict, CLOZE_CONTEXT_MODEL),
                     tags))
          /\ field_dicts' = Append(field_dicts, field_dict)
    /\ origin' = Append(origin, Origin("cloze", q))
    /\ q' = q + 1
    /\ UNCHANGED <<doc, tokens, tags, file_front_context, card_indices, cloze_indices, r, pc>>

\* line 552
Return ==
    /\ pc = "regions"
    /\ r > Len(card_indices)
    /\ q > Len(cloze_indices)
    /\ pc' = "done"
    /\ UNCHANGED <<doc, tokens, tags, file_front_context, card_indices, cloze_indices,
                   r, q, notes, origin,
                   field_dicts>>

\* ------------------------------------------------------ the documents read
\* inline contents.  "Q ==> R", "Q <==> R", "Q <== R": inline cards of the
\* three directions; "Q ==>", "Q ==> #ta", "Q ==> #incremental", "Q <== #ta":
\* list-card fronts; "Q ==> R #ta", "Q ==> R #card": inline cards with a tag;
\* "Q <==> #incremental": a Bidirectional list-card front; "a ~~h x~~ b": a
\* cloze span; "e <== f": a Backward inline card in a sub-item
cPlain == <<"Q">>
cFwd == <<"Q", " ", "=", "=", ">", " ", "R">>
cBidi == <<"Q", " ", "<", "=", "=", ">", " ", "R">>
cBwd == <<"Q", " ", "<", "=", "=", " ", "R">>
cEmpty == <<"Q", " ", "=", "=", ">">>
cTag == <<"Q", " ", "=", "=", ">", " ", "#", "t", "a">>
cInc == <<"Q", " ", "=", "=", ">", " ", "#">> \o INCREMENTAL
cBwdTag == <<"Q", " ", "<", "=", "=", " ", "#", "t", "a">>
cFwdTag == <<"Q", " ", "=", "=", ">", " ", "R", " ", "#", "t", "a">>
cCardTag == <<"Q", " ", "=", "=", ">", " ", "R", " ", "#">> \o CARD
cBidiInc == <<"Q", " ", "<", "=", "=", ">", " ", "#">> \o INCREMENTAL
cCloze == <<"a", " ", "~", "~", "h", " ", "x", "~", "~", " ", "b">>
cA == <<"A">>
cB == <<"B">>
cSubPlain == <<"a">>
cSubCard == <<"b", " ", "=", "=", ">", " ", "c">>
cSubBwd == <<"e", " ", "<", "=", "=", " ", "f">>
cDeep == <<"d">>

TopContents ==
    {cPlain, cFwd, cBidi, cBwd, cEmpty, cTag, cInc, cBwdTag, cFwdTag, cBidiInc, cCloze}
SubContents == {cSubPlain, cSubCard}

\* the back of a list item: n sub-items with the contents cs, the sub-item
\* number deep (0: none) holding one item of its own
BackLines(cs, deep) ==
    Flatten([n \in 1..Len(cs) |->
        <<Line("li", 1, cs[n])>>
        \o (IF n = deep THEN <<Line("li", 2, cDeep)>> ELSE <<>>)])

\* one top-level bullet item with up to MaxBack sub-items
ItemOutlines ==
    {<<Line("li", 0, c)>> \o BackLines(cs, deep) :
        c \in TopContents,
        cs \in UNION {[1..n -> SubContents] : n \in 0..MaxBack},
        deep \in 0..MaxBack}

\* a list-card front of each direction over MaxBack sub-items, the first of
\* them a Backward inline card
DirectionOutlines ==
    {<<Line("li", 0, c)>>
        \o BackLines([n \in 1..MaxBack |-> IF n = 1 THEN cSubBwd ELSE cSubPlain], 0) :
        c \in {cInc, cBidiInc, cBwdTag}}

\* "==> *x*", "Q ==> *x*", "Q ==> *x* y": carriers whose text child ends
\* right after the glyph, with an emphasis (and more text) after it
cGlyphEm == <<"=", "=", ">", " ", "*", "x", "*">>
cEm == <<"Q", " ", "=", "=", ">", " ", "*", "x", "*">>
cEmText == <<"Q", " ", "=", "=", ">", " ", "*", "x", "*", " ", "y">>
\* one top-level item with such a carrier
EmphasisOutlines == {<<Line("li", 0, c)>> : c \in {cGlyphEm, cEm, cEmText}}

\* one top-level item of two paragraphs, with or without a sub-item after them
TwoParagraphContents == {cPlain, cFwd, cTag, cCloze}
TwoParagraphOutlines ==
    {<<Line("li", 0, c1), Line("cont", 0, c2)>> \o sub :
        c1 \in TwoParagraphContents, c2 \in TwoParagraphContents,
        sub \in {<<>>, <<Line("li", 1, cSubPlain)>>}}

\* the text of the k-th span of a line of spans
SpanLetters == <<"a", "b", "c", "d", "e", "f", "g", "h", "i", "j", "k", "l", "m">>
\* a line of n spans: "~~a~~ ~~b~~ ..."
Spans(n) ==
    Flatten([k \in 1..n |->
        (IF k > 1 THEN <<" ">> ELSE <<>>)
        \o TILDES \o <<SpanLetters[((k - 1) % Len(SpanLetters)) + 1]>> \o TILDES])
\* one top-level item holding 1 to MaxSpans spans
SpanOutlines == {<<Line("li", 0, Spans(n))>> : n \in 1..MaxSpans}

\* up to MaxHeadings headings, one after the other, of the highest, the
\* lowest and a middle level
cHeading == <<"H">>
HeadingLevels == {1, 2, 6}
HeadingRuns ==
    {[n \in 1..Len(hs) |-> HLine(hs[n], cHeading)] :
        hs \in UNION {[1..n -> HeadingLevels] : n \in 0..MaxHeadings}}
\* lists whose cards sit at different places: the first and the second
\* top-level item; the first sub-item; a sub-item after a sibling that has a
\* list of its own; an item two lists deep; an item of a second nested list
\* that follows a first, closed one and a further paragraph of the parent
NestedLists ==
    {<<Line("li", 0, cFwd)>>,
     <<Line("li", 0, cPlain), Line("li", 0, cFwd)>>,
     <<Line("li", 0, cPlain), Line("li", 1, cSubCard)>>,
     <<Line("li", 0, cPlain), Line("li", 1, cSubPlain), Line("li", 2, cDeep),
       Line("li", 1, cSubCard)>>,
     <<Line("li", 0, cA), Line("li", 1, cSubPlain), Line("li", 2, cSubCard)>>,
     <<Line("li", 0, cPlain), Line("li", 1, cSubPlain), Line("cont", 0, cB),
       Line("oli", 1, cSubCard)>>}
HeadedOutlines == {hs \o ls : hs \in HeadingRuns, ls \in NestedLists}

\* a paragraph outside every list
ParagraphOutlines == {<<Line("p", 0, c)>> : c \in TopContents}

\* the blocks a file-card document is made of
Segments ==
    {<<Line("p", 0, cA)>>, <<Line("p", 0, cB)>>,
     <<Line("li", 0, cInc), Line("li", 1, cSubPlain), Line("li", 1, cSubCard)>>,
     <<Line("li", 0, cCardTag), Line("li", 0, cCloze)>>}

\* bodies of up to MaxBodyDelims + 1 segments separated by delimiter lines
RECURSIVE Joined(_)
Joined(segs) ==
    IF Len(segs) = 1 THEN segs[1]
    ELSE segs[1] \o <<Line("hr", 0, <<>>)>> \o Joined(Tail(segs))
SegmentedOutlines ==
    {Joined(segs) : segs \in UNION {[1..n -> Segments] : n \in 1..(MaxBodyDelims + 1)}}

FrontMatters ==
    {FrontMatter(FALSE, <<>>), FrontMatter(TRUE, <<>>),
     FrontMatter(TRUE, <<CARD>>), FrontMatter(TRUE, <<CARD, INCREMENTAL>>),
     FrontMatter(TRUE, <<<<"t", "b">>>>)}

Documents ==
    ([fm : {FrontMatter(FALSE, <<>>)},
      outline : ItemOutlines \cup DirectionOutlines \cup TwoParagraphOutlines
                \cup SpanOutlines \cup HeadedOutlines \cup EmphasisOutlines
                \cup ParagraphOutlines])
    \cup [fm : FrontMatters, outline : SegmentedOutlines]

\* the state after read_file (lines 420-424)
InitOn(d) ==
    /\ fm = d.fm
    /\ outline = d.outline
    /\ text = FrontMatterText(d.fm) \o BodyText(d.outline)
    /\ tokens = SetRefs(BlockTokens(d.outline, <<>>))
    /\ tags = FrontMatterTags(d.fm)
    /\ file_front_context = <<>>
    /\ card_indices = <<>>
    /\ cloze_indices = <<>>
    /\ r = 1
    /\ q = 1
    /\ notes = <<>>
    /\ origin = <<>>
    /\ field_dicts = <<>>
    /\ pc = "file"

Init == \E d \in Documents : InitOn(d)

Next ==
    \/ FileCard
    \/ FileCardShapeError
    \/ NoFileCard
    \/ Scan
    \/ CardDiscard
    \/ CardEmit
    \/ ClozeEmit
    \/ Return

Spec == Init /\ [][Next]_vars

\* ------------------------------------- the scanner on any token sequence
\* longest token sequence handed to the scanner
MaxAnyLen == 4

\* the tokens such a sequence is made of
AnyTokens ==
    {Tok("list_item_open", 1), Tok("list_item_close", 1), Tok("list_item_close", 3),
     Tok("bullet_list_open", 2), Inline(cFwd, 3), Inline(cCloze, 3)}

AnySequences == UNION {[1..n -> AnyTokens] : n \in 1..MaxAnyLen}

\* a file without front matter whose tokens are ts
InitAny ==
    \E ts \in AnySequences :
        /\ fm = FrontMatter(FALSE, <<>>)
        /\ outline = <<>>
        /\ text = <<>>
        /\ tokens = SetRefs(ts)
        /\ tags = {}
        /\ file_front_context = <<>>
        /\ card_indices = <<>>
        /\ cloze_indices = <<>>
        /\ r = 1
        /\ q = 1
        /\ notes = <<>>
        /\ origin = <<>>
        /\ field_dicts = <<>>
        /\ pc = "file"

\* extract_cards up to the end of the scan
NextScan ==
    \/ NoFileCard
    \/ Scan
    \/ ScanRaise

SpecAny == InitAny /\ [][NextScan]_vars

\* --------------------------------- the assembly of any field dictionary
\* the keys and values a field dictionary is made of: the declared field
\* names of the two models and one name neither declares
FieldNames == {"FilePath", "Context", "Front", "Back", "Text", "Extra"}
FieldValues == {<<>>, Lit(<<"x">>), Lit(<<"y">>)}
FieldDicts == UNION {[S -> FieldValues] : S \in SUBSET FieldNames}
Models == {BASIC_CONTEXT_MODEL, CLOZE_CONTEXT_MODEL}

\* nothing read, no note built yet
InitFields ==
    /\ fm = FrontMatter(FALSE, <<>>)
    /\ outline = <<>>
    /\ text = <<>>
    /\ tokens = <<>>
    /\ tags = {}
    /\ file_front_context = <<>>
    /\ card_indices = <<>>
    /\ cloze_indices = <<>>
    /\ r = 1
    /\ q = 1
    /\ notes = <<>>
    /\ origin = <<>>
    /\ field_dicts = <<>>
    /\ pc = "assemble"

\* genanki.Note(model=model, fields=_field_dict_to_list(field_dict, model))
Assemble ==
    /\ pc = "assemble"
    /\ \E field_dict \in FieldDicts, model \in Models :
          /\ notes' = Append(notes,
                Note(model, _field_dict_to_list(field_dict, model), {}))
          /\ field_dicts' = Append(field_dicts, field_dict)
    /\ origin' = Append(origin, Origin("call", 0))
    /\ pc' = "done"
    /\ UNCHANGED <<doc, tokens, tags, file_front_context, card_indices, cloze_indices,
                   r, q>>

SpecFields == InitFields /\ [][Assemble]_vars

\* ================================================================ claims
\* what the claims speak about, read off the state
Scanned == pc \in {"regions", "done"}
Regions == 1..Len(card_indices)
CarrierInline(x) == tokens[card_indices[x].inline_token_index]
CarrierContent(x) == CarrierInline(x).children[card_indices[x].symbol_child_index].content
Glyph(x) == INLINE_SYMBOL(card_indices[x].symbol_direction)
\* the raw content after the glyph, and what is left of it without tags
AfterGlyph(x) == SplitOnce(CarrierInline(x).content, Glyph(x))[2]
Residue(x) == Strip(RemoveTagsFrom(AfterGlyph(x), 1))
\* a bullet list opens between the carrier inline and the region's close
HasNestedBulletList(x) ==
    \E p \in (card_indices[x].inline_token_index + 1)
                ..(card_indices[x].list_close_token_index - 1) :
        tokens[p].type = "bullet_list_open"
\* the notes built from a region
NotesOf(kind, at) == {n \in 1..Len(notes) : origin[n] = Origin(kind, at)}
\* the token sequence rendered last into the Text field of a cloze note
FinalTokens(n) == LET t == notes[n].fields[3] IN t[Len(t)].tokens

\* C1: a carrier text child that contains <==> is recorded as Bidirectional;
\* Forward is recorded only when <==> is absent, Backward only when <==> and
\* ==> are both absent.
C1_DirectionPrecedence ==
    \A x \in Regions :
        LET c == CarrierContent(x)
            d == card_indices[x].symbol_direction
        IN /\ Contains(c, INLINE_SYMBOL(BIDIRECTIONAL)) => d = BIDIRECTIONAL
           /\ d = FORWARD => /\ Contains(c, INLINE_SYMBOL(FORWARD))
                             /\ ~Contains(c, INLINE_SYMBOL(BIDIRECTIONAL))
           /\ d = BACKWARD => /\ Contains(c, INLINE_SYMBOL(BACKWARD))
                              /\ ~Contains(c, INLINE_SYMBOL(BIDIRECTIONAL))
                              /\ ~Contains(c, INLINE_SYMBOL(FORWARD))

\* a region whose carrier holds <==>, and with it ==> and <==, has been scanned
C1_Witness ==
    /\ Scanned
    /\ \E x \in Regions :
          /\ Contains(CarrierContent(x), INLINE_SYMBOL(BIDIRECTIONAL))
          /\ Contains(CarrierContent(x), INLINE_SYMBOL(FORWARD))
          /\ Contains(CarrierContent(x), INLINE_SYMBOL(BACKWARD))

\* C2: a region with nothing but tags after the glyph and no bullet list
\* between the carrier and the item's close gets no note, and extraction does
\* not end in an error.
C2_EmptyListCardDropped ==
    \A x \in Regions :
        (Residue(x) = <<>> /\ ~HasNestedBulletList(x)) =>
            /\ NotesOf("card", x) = {}
            /\ pc # "error"

\* the line "Q ==> #ta" alone has been passed by the synthesis loop
C2_Witness ==
    /\ pc = "done"
    /\ \E x \in Regions :
          /\ Residue(x) = <<>>
          /\ AfterGlyph(x) # <<>>
          /\ ~HasNestedBulletList(x)
          /\ notes = <<>>

\* a child that opens (closes) a cloze, whatever blanks surround the braces
IsClozeStart(child, k) ==
    /\ child.type = "text"
    /\ Strip(child.content) = <<"{", "{", "c">> \o Str(k) \o <<":", ":">>
IsClozeEnd(child) ==
    /\ child.type = "text"
    /\ Strip(child.content) = <<"}", "}">>
\* children is original wrapped as cloze number k
IsWrapped(children, original, k) ==
    /\ Len(children) = Len(original) + 2
    /\ IsClozeStart(children[1], k)
    /\ IsClozeEnd(children[Len(children)])
    /\ SubSeq(children, 2, Len(children) - 1) = original
\* the largest cloze number looked for in a note
MaxCloze == MaxBack + 2
\* the cloze numbers that open a wrapped inline token of ts
NumbersUsed(ts) ==
    {k \in 1..MaxCloze :
        \E p \in 1..Len(ts) :
            /\ ts[p].type = "inline"
            /\ ts[p].children # <<>>
            /\ IsClozeStart(ts[p].children[1], k)}

\* a list card: nothing but tags after the glyph, and a nested bullet list
IsListCard(x) == Residue(x) = <<>> /\ HasNestedBulletList(x)
\* the back items of region x: the list items one list below the region's item
TopOpens(x, p) ==
    {o \in (card_indices[x].inline_token_index + 1)..p :
        /\ tokens[o].type = "list_item_open"
        /\ tokens[o].level = tokens[card_indices[x].list_open_token_index].level + 2}
TopCloses(x, p) ==
    {o \in (card_indices[x].inline_token_index + 1)..p :
        /\ tokens[o].type = "list_item_close"
        /\ tokens[o].level = tokens[card_indices[x].list_open_token_index].level + 2}
\* position p lies inside the back item number Cardinality(TopOpens(x, p))
InBackItem(x, p) == Cardinality(TopOpens(x, p)) > Cardinality(TopCloses(x, p))
LineTags(x) == FindTagsFrom(AfterGlyph(x), 1)

\* C3: in the note of a Forward list card tagged incremental, every inline
\* token inside the k-th top-level back item (nested sub-items included) is
\* wrapped with cloze number k, and the numbers used are exactly 1..n for n
\* back items; without the tag every wrapped inline token has number 1.
C3_IncrementalNumbering ==
    \A x \in Regions : \A n \in NotesOf("card", x) :
        (IsListCard(x) /\ card_indices[x].symbol_direction = FORWARD) =>
            LET reg == card_indices[x]
                first == reg.list_open_token_index
                inc == INCREMENTAL \in LineTags(x)
                final == FinalTokens(n)
                items == Cardinality(TopOpens(x, reg.list_close_token_index))
            IN /\ \A p \in (reg.inline_token_index + 1)..reg.list_close_token_index :
                    (tokens[p].type = "inline" /\ InBackItem(x, p)) =>
                        IsWrapped(final[p - first + 1].children, tokens[p].children,
                                  IF inc THEN Cardinality(TopOpens(x, p)) ELSE 1)
               /\ NumbersUsed(final) = IF inc THEN 1..items ELSE {1}

\* an incremental Forward list card with MaxBack back items, one of which has a
\* sub-item of its own, has its note
C3_Witness ==
    \E x \in Regions :
        /\ NotesOf("card", x) # {}
        /\ IsListCard(x)
        /\ card_indices[x].symbol_direction = FORWARD
        /\ INCREMENTAL \in LineTags(x)
        /\ Cardinality(TopOpens(x, card_indices[x].list_close_token_index)) = MaxBack
        /\ \E p \in 1..Len(tokens) :
              /\ tokens[p].type = "list_item_open"
              /\ tokens[p].level = tokens[card_indices[x].list_open_token_index].level + 4
              /\ Cardinality(TopOpens(x, p)) < MaxBack

\* token sequences compared as values: the same tokens, whichever objects
Plain(ts) == [p \in 1..Len(ts) |-> [ts[p] EXCEPT !.ref = 0]]
\* the notes built for the list item opened at position i
NotesOfItem(i) ==
    {n \in 1..Len(notes) :
        \/ /\ origin[n].kind = "card"
           /\ card_indices[origin[n].at].list_open_token_index = i
        \/ /\ origin[n].kind = "cloze"
           /\ cloze_indices[origin[n].at].list_open_token_index = i}
\* the carrier of region x is the plain text L ==> R, with no cloze span, and
\* the only paragraph of its item
IsPlainForwardCarrier(x) ==
    /\ card_indices[x].symbol_direction = FORWARD
    /\ \A p \in card_indices[x].list_open_token_index
                ..card_indices[x].list_close_token_index :
          tokens[p].type = "inline" => p = card_indices[x].inline_token_index
    /\ Len(CarrierInline(x).children) = 1
    /\ ~ClozeSearch(CarrierInline(x).content)

\* C4: a list item whose carrier is L ==> R, R not empty once tags and blanks
\* are removed, and which has no nested list, gets exactly one note; the note
\* has the cloze model and its tokens end with the front inline (L and the
\* glyph, not wrapped) followed by the back inline (R) wrapped as cloze 1.
C4_InlineCard ==
    pc = "done" =>
        \A x \in Regions :
            (IsPlainForwardCarrier(x) /\ Residue(x) # <<>> /\ ~HasNestedBulletList(x)) =>
                LET reg == card_indices[x]
                    L == SplitOnce(CarrierContent(x), INLINE_SYMBOL(FORWARD))[1]
                    R == SplitOnce(CarrierContent(x), INLINE_SYMBOL(FORWARD))[2]
                    lead == reg.inline_token_index - reg.list_open_token_index
                IN /\ Cardinality(NotesOfItem(reg.list_open_token_index)) = 1
                   /\ Cardinality(NotesOf("card", x)) = 1
                   /\ \A n \in NotesOf("card", x) :
                        LET final == FinalTokens(n)
                        IN /\ notes[n].model = CLOZE_CONTEXT_MODEL
                           /\ Len(final) = lead + 2
                           /\ SubSeq(final, 1, lead)
                                = Plain(SubSeq(tokens, reg.list_open_token_index,
                                               reg.inline_token_index - 1))
                           /\ final[lead + 1].type = "inline"
                           /\ final[lead + 1].children
                                = <<Child("text", 0, L \o INLINE_SYMBOL(FORWARD))>>
                           /\ final[lead + 2].type = "inline"
                           /\ IsWrapped(final[lead + 2].children,
                                        <<Child("text", 0, R)>>, 1)

\* the document "- Q ==> R" has been extracted
C4_Witness ==
    /\ pc = "done"
    /\ outline = <<Line("li", 0, cFwd)>>
    /\ \E x \in Regions :
          /\ IsPlainForwardCarrier(x)
          /\ Residue(x) # <<>>
          /\ ~HasNestedBulletList(x)
          /\ NotesOf("card", x) # {}

\* C5: a paragraph outside every list that holds one double-tilde span yields
\* exactly one cloze card, with the span wrapped as cloze number 1.
C5_ClozeSpanOutsideList ==
    (/\ pc = "done"
     /\ Len(outline) = 1
     /\ outline[1].k = "p"
     /\ ClozeSearch(outline[1].c)) =>
        /\ Len(notes) = 1
        /\ notes[1].model = CLOZE_CONTEXT_MODEL
        /\ \E p \in 1..Len(FinalTokens(1)) :
              /\ FinalTokens(1)[p].type = "inline"
              /\ FinalTokens(1)[p].content
                    = <<"a", " ", "{", "{", "c", "1", ":", ":", " ", "h", " ", "x",
                        " ", "}", "}", " ", "b">>

\* the delimiter occurrences of the text, and the k-th of them
Delims == {i \in 1..Len(text) : OccursAt(text, FILE_SPLIT_PATTERN, i)}
Delim(k) == CHOOSE i \in Delims : Cardinality({h \in Delims : h < i}) = k - 1
DeclaredTags == FrontMatterTags(fm)

\* C6: with the tag card (and not incremental) in the front matter and three
\* or more delimiter occurrences, the first note is the only basic note; its
\* front is the text between the second and third occurrence, its back all
\* the text after the third.
C6_FileCard ==
    (/\ pc # "file"
     /\ CARD \in DeclaredTags
     /\ INCREMENTAL \notin DeclaredTags
     /\ Cardinality(Delims) >= 3) =>
        /\ Len(notes) >= 1
        /\ origin[1] = Origin("file", 0)
        /\ notes[1].model = BASIC_CONTEXT_MODEL
        /\ notes[1].fields[3]
            = render(md_parse(Sub(text, Delim(2) + Len(FILE_SPLIT_PATTERN), Delim(3) - 1),
                              outline))
        /\ notes[1].fields[4]
            = render(md_parse(Sub(text, Delim(3) + Len(FILE_SPLIT_PATTERN), Len(text)),
                              outline))
        /\ \A n \in 2..Len(notes) : notes[n].model # BASIC_CONTEXT_MODEL

\* a file card whose back holds a fourth delimiter has been built
C6_Witness ==
    /\ pc = "done"
    /\ CARD \in DeclaredTags
    /\ INCREMENTAL \notin DeclaredTags
    /\ Cardinality(Delims) = 4
    /\ notes # <<>>
    /\ notes[1].model = BASIC_CONTEXT_MODEL
    /\ \E p \in 1..Len(notes[1].fields[4][1].tokens) :
          notes[1].fields[4][1].tokens[p].type = "hr"

\* C7: with the tag card in the front matter, fewer than three delimiter
\* occurrences end extraction in an error with no notes, and three or more
\* never do.
C7_ContentShapeError ==
    (pc # "file" /\ CARD \in DeclaredTags) =>
        /\ Cardinality(Delims) < 3 => (pc = "error" /\ notes = <<>>)
        /\ Cardinality(Delims) >= 3 => pc # "error"

\* a document declaring card with its two front matter fences only has failed
C7_Witness ==
    /\ pc = "error"
    /\ CARD \in DeclaredTags
    /\ Cardinality(Delims) = 2

\* C9: every list_open_token_index, inline_token_index and
\* list_close_token_index stored in a CardRegion or ClozeRegion is a position
\* of the token sequence, and symbol_child_index a position of the carrier's
\* children, whatever the token sequence.
C9_IndexBounds ==
    /\ \A x \in Regions :
          /\ card_indices[x].list_open_token_index \in 1..Len(tokens)
          /\ card_indices[x].inline_token_index \in 1..Len(tokens)
          /\ card_indices[x].list_close_token_index \in 1..Len(tokens)
          /\ card_indices[x].symbol_child_index
                \in 1..Len(tokens[card_indices[x].inline_token_index].children)
    /\ \A x \in 1..Len(cloze_indices) :
          /\ cloze_indices[x].list_open_token_index \in 1..Len(tokens)
          /\ cloze_indices[x].inline_token_index \in 1..Len(tokens)

\* no list_item_close of the opening level follows the carrier of region x
NoCloseFollows(x) ==
    \A p \in (card_indices[x].inline_token_index + 1)..Len(tokens) :
        ~(/\ tokens[p].type = "list_item_close"
          /\ tokens[p].level = tokens[card_indices[x].list_open_token_index].level)

\* the scan has stored a region whose carrier is the last token, and one whose
\* carrier is followed by tokens but by no close of the opening level
C9_Witness ==
    /\ Scanned
    /\ \E x \in Regions : card_indices[x].inline_token_index = Len(tokens)
    /\ \E x \in Regions :
          /\ card_indices[x].inline_token_index < Len(tokens)
          /\ NoCloseFollows(x)
    /\ cloze_indices # <<>>

\* the token sequence as it was right after scanning
ScannedTokens == SetRefs(BlockTokens(outline, <<>>))
\* region y lies in the back window of region x
Overlaps(x, y) ==
    /\ x # y
    /\ card_indices[y].inline_token_index > card_indices[x].inline_token_index
    /\ card_indices[y].inline_token_index < card_indices[x].list_close_token_index
\* the tokens of ts that carry an opening cloze marker
Marked(ts) ==
    {p \in 1..Len(ts) :
        \E c \in 1..Len(ts[p].children) : \E k \in 1..MaxCloze :
            IsClozeStart(ts[p].children[c], k)}

\* C10: whatever regions have been synthesized, every token of the document's
\* sequence has the kind, level, content and children it had after scanning;
\* the note of an inline card that lies inside a list card's back carries its
\* own pair of cloze markers only.
C10_NoMutation ==
    /\ tokens = ScannedTokens
    /\ \A x \in Regions : \A n \in NotesOf("card", x) :
          (~IsListCard(x) /\ Residue(x) # <<>>) =>
              Cardinality(Marked(FinalTokens(n))) <= 1

\* a list card and an inline card inside its back both have their notes
C10_Witness ==
    \E x, y \in Regions :
        /\ Overlaps(x, y)
        /\ IsListCard(x)
        /\ NotesOf("card", x) # {}
        /\ NotesOf("card", y) # {}

\* the file front content is part of the context of note n: a piece of its
\* Text field before the card's own tokens
HasFileFront(n) ==
    LET t == notes[n].fields[3]
    IN /\ file_front_context # <<>>
       /\ \E k \in 1..(Len(t) - 1) : <<t[k]>> = file_front_context

C12_CardAssembly ==
    \A n \in 1..Len(notes) :
        LET field_dict == field_dicts[n]
            model == notes[n].model
            fields == notes[n].fields
        IN /\ Len(fields) = Len(model)
           /\ \A k \in 1..Len(model) :
                 fields[k] = IF model[k] \in DOMAIN field_dict
                             THEN field_dict[model[k]] ELSE <<>>

\* a note assembled from a dictionary that has a key its model does not
\* declare, lacks a declared field and has a value for another
C12_Witness ==
    \E n \in 1..Len(notes) :
        /\ "Extra" \in DOMAIN field_dicts[n]
        /\ field_dicts[n]["Extra"] # <<>>
        /\ \E k \in 1..Len(notes[n].model) : notes[n].model[k] \notin DOMAIN field_dicts[n]
        /\ \E k \in 1..Len(notes[n].model) :
              /\ notes[n].model[k] \in DOMAIN field_dicts[n]
              /\ field_dicts[n][notes[n].model[k]] # <<>>

\* the tokens of ts that carry a cloze marker, opening or closing
MarkerPositions(ts) ==
    {p \in 1..Len(ts) :
        \E c \in 1..Len(ts[p].children) :
            \/ IsClozeEnd(ts[p].children[c])
            \/ \E k \in 1..MaxCloze : IsClozeStart(ts[p].children[c], k)}
\* the number of front tokens of region x: the item's tokens up to the carrier
FrontLen(x) ==
    card_indices[x].inline_token_index - card_indices[x].list_open_token_index + 1

\* C13: the note of a separator card has its front tokens followed by its
\* back tokens.  With Backward every cloze marker lies in a front token; with
\* Forward and with Bidirectional every marker lies in a back token, and the
\* placement and numbering are those of Forward: a list card has each inline
\* token of its k-th back item wrapped with number k when incremental and 1
\* otherwise, every other back token left as it is, and an inline card has its
\* one back token wrapped with number 1.
C13_DirectionalCloze ==
    \A x \in Regions : \A n \in NotesOf("card", x) :
        LET reg == card_indices[x]
            final == FinalTokens(n)
            first == reg.list_open_token_index
            inc == INCREMENTAL \in LineTags(x)
        IN /\ reg.symbol_direction = BACKWARD =>
                MarkerPositions(final) \subseteq 1..FrontLen(x)
           /\ reg.symbol_direction \in {FORWARD, BIDIRECTIONAL} =>
                /\ MarkerPositions(final) \subseteq (FrontLen(x) + 1)..Len(final)
                /\ IsListCard(x) =>
                      \A p \in (reg.inline_token_index + 1)..reg.list_close_token_index :
                          IF tokens[p].type = "inline" /\ InBackItem(x, p)
                          THEN IsWrapped(final[p - first + 1].children, tokens[p].children,
                                         IF inc THEN Cardinality(TopOpens(x, p)) ELSE 1)
                          ELSE final[p - first + 1] = [tokens[p] EXCEPT !.ref = 0]
                /\ ~IsListCard(x) =>
                      \A p \in MarkerPositions(final) :
                          /\ p = FrontLen(x) + 1
                          /\ IsClozeStart(final[p].children[1], 1)
                          /\ IsClozeEnd(final[p].children[Len(final[p].children)])

\* an incremental Bidirectional list card with MaxBack back items and a
\* Backward inline card each have their note, with markers in it
C13_Witness ==
    /\ \E x \in Regions : \E n \in NotesOf("card", x) :
          /\ card_indices[x].symbol_direction = BIDIRECTIONAL
          /\ IsListCard(x)
          /\ INCREMENTAL \in LineTags(x)
          /\ NumbersUsed(FinalTokens(n)) = 1..MaxBack
    /\ \E x \in Regions : \E n \in NotesOf("card", x) :
          /\ card_indices[x].symbol_direction = BACKWARD
          /\ MarkerPositions(FinalTokens(n)) # {}

ItemOpens == {i \in 1..Len(tokens) : tokens[i].type = "list_item_open"}
\* the first inline token after position i
FirstInlineAfter(i) ==
    CHOOSE j \in (i + 1)..Len(tokens) :
        /\ tokens[j].type = "inline"
        /\ \A p \in (i + 1)..(j - 1) : tokens[p].type # "inline"

\* C15: a list_item_open has at most one CardRegion and at most one
\* ClozeRegion, and the carrier of each is the first inline token that follows
\* the list_item_open.
C15_FirstInlineOnly ==
    \A i \in ItemOpens :
        /\ Cardinality({x \in Regions : card_indices[x].list_open_token_index = i}) <= 1
        /\ Cardinality({x \in 1..Len(cloze_indices) :
                            cloze_indices[x].list_open_token_index = i}) <= 1
        /\ \A x \in Regions :
              card_indices[x].list_open_token_index = i =>
                  card_indices[x].inline_token_index = FirstInlineAfter(i)
        /\ \A x \in 1..Len(cloze_indices) :
              cloze_indices[x].list_open_token_index = i =>
                  cloze_indices[x].inline_token_index = FirstInlineAfter(i)

\* the number written in digits from position i of s, up to the first
\* character that is no digit
RECURSIVE NumberFrom(_, _, _)
NumberFrom(s, i, acc) ==
    IF i > Len(s) \/ s[i] \notin {DigitChars[d] : d \in 1..10} THEN acc
    ELSE NumberFrom(s, i + 1, 10 * acc + DigitVal(s[i]))
\* the cloze numbers of s in the order of their markers {{cN::
RECURSIVE ClozeNumbers(_, _)
ClozeNumbers(s, i) ==
    LET at == FindFrom(s, <<"{", "{", "c">>, i)
    IN IF i > Len(s) \/ at = 0 THEN <<>>
       ELSE <<NumberFrom(s, at + 3, 0)>> \o ClozeNumbers(s, at + 3)
\* the number of spans of a line in which every ~~ opens or closes a span
SpanCount(s) == Cardinality({i \in 1..Len(s) : OccursAt(s, TILDES, i)}) \div 2

\* C16: the rewritten content stored in a ClozeRegion numbers the spans of
\* the raw content 1, 2, ..., n from left to right, n being the number of
\* spans, also when n is 10 or more.
C16_InlineClozeRenumbering ==
    \A x \in 1..Len(cloze_indices) :
        LET raw == tokens[cloze_indices[x].inline_token_index].content
            rewritten == cloze_indices[x].clozed_tokens[1].content
            numbers == ClozeNumbers(rewritten, 1)
        IN /\ Len(cloze_indices[x].clozed_tokens) = 1
           /\ Len(numbers) = SpanCount(raw)
           /\ \A k \in 1..Len(numbers) : numbers[k] = k

\* a line of MaxSpans spans, ten at least, has been scanned
C16_Witness ==
    /\ Scanned
    /\ MaxSpans >= 10
    /\ \E x \in 1..Len(cloze_indices) :
          SpanCount(tokens[cloze_indices[x].inline_token_index].content) = MaxSpans

\* the context tokens of note n: the tokens of the first piece of its Text
\* field when that piece is a prior context
ContextTokens(n) ==
    LET t == notes[n].fields[3]
    IN IF t[1].kind = "render_stripped" THEN t[1].tokens ELSE <<>>
\* the positions in the document of the context tokens of note n
ContextPositions(n) == {ContextTokens(n)[k].ref : k \in 1..Len(ContextTokens(n))}
\* the list_item_open the context of note n was searched from
Anchor(n) ==
    IF origin[n].kind = "card" THEN card_indices[origin[n].at].list_open_token_index
    ELSE cloze_indices[origin[n].at].list_open_token_index
\* the notes built from a region of the scan
RegionNotes == {n \in 1..Len(notes) : origin[n].kind \in {"card", "cloze"}}
IsListOpener(p) ==
    tokens[p].type \in {"list_item_open", "bullet_list_open", "ordered_list_open"}
\* the close of the list or list item opened at o: the next close of its level
ClosingOf(o) ==
    CHOOSE c \in (o + 1)..Len(tokens) :
        /\ IsCloseOfList(tokens[c].type)
        /\ tokens[c].level = tokens[o].level
        /\ \A h \in (o + 1)..(c - 1) :
              ~(IsCloseOfList(tokens[h].type) /\ tokens[h].level = tokens[o].level)
\* position p lies in a list or list item that is closed before position i
InClosedBefore(p, i) ==
    \E o \in 1..p : IsListOpener(o) /\ p <= ClosingOf(o) /\ ClosingOf(o) < i
\* the list items that enclose position i
Ancestors(i) ==
    {a \in 1..(i - 1) : tokens[a].type = "list_item_open" /\ ClosingOf(a) > i}
\* the open of the outermost list around position i
OuterListOpen(i) ==
    CHOOSE o \in 1..(i - 1) :
        /\ tokens[o].level = 0
        /\ \A h \in (o + 1)..(i - 1) : tokens[h].level # 0
\* the list part of the context of note n
ListPart(n) == {p \in ContextPositions(n) : p >= OuterListOpen(Anchor(n))}

\* C17: the list part of a prior context holds no token of a list or list
\* item that is closed before the anchor, and every list_item_open in it
\* encloses the anchor.
C17_ContextPruning ==
    \A n \in RegionNotes :
        \A p \in ListPart(n) :
            /\ ~InClosedBefore(p, Anchor(n))
            /\ tokens[p].type = "list_item_open" => p \in Ancestors(Anchor(n))

\* C18: the context of a note holds, for every list item that encloses the
\* anchor, the item's list_item_open and the inline token of its first
\* paragraph.
C18_ContextCompleteness ==
    \A n \in RegionNotes :
        \A a \in Ancestors(Anchor(n)) :
            /\ a \in ContextPositions(n)
            /\ FirstInlineAfter(a) \in ContextPositions(n)

\* a note whose anchor lies in the second nested list of an item, after a
\* first nested list that is closed and a further paragraph of the item
C18_Witness ==
    \E n \in RegionNotes :
        \E a \in Ancestors(Anchor(n)) :
            \E o \in (a + 1)..(Anchor(n) - 1) :
                /\ tokens[o].type = "bullet_list_open"
                /\ ClosingOf(o) < Anchor(n)
                /\ \E h \in (ClosingOf(o) + 1)..(Anchor(n) - 1) :
                      tokens[h].type = "inline"

\* the heading tokens of the document: opens, closes and their inline tokens
HeadingPositions ==
    {p \in 1..Len(tokens) :
        \/ tokens[p].type \in {"heading_open", "heading_close"}
        \/ (p > 1 /\ tokens[p - 1].type = "heading_open")}
\* the heading_close tokens before the outermost list around position i
HeadingsBefore(i) ==
    {p \in 1..(OuterListOpen(i) - 1) : tokens[p].type = "heading_close"}
\* the level number of the heading closed at p
HeadingLevel(p) == DigitVal(tokens[p].tag[2])

\* C19: the last heading before the outermost list of the anchor is in the
\* context with its open, inline and close, whatever its level.
C19_NearestHeading ==
    \A n \in RegionNotes :
        \A p \in HeadingsBefore(Anchor(n)) :
            (\A h \in HeadingsBefore(Anchor(n)) : h <= p) =>
                {p - 2, p - 1, p} \subseteq ContextPositions(n)

\* C20: the context tokens are tokens before the anchor in document order;
\* the heading tokens come before the others; a heading is in with its open,
\* inline and close or not at all; the kept headings have level numbers that
\* increase strictly in document order.
C20_ContextOrder ==
    \A n \in RegionNotes :
        LET ctx == ContextTokens(n)
            kept == {p \in HeadingsBefore(Anchor(n)) : p \in ContextPositions(n)}
        IN /\ \A k \in 1..Len(ctx) :
                 /\ ctx[k].ref \in 1..(Anchor(n) - 1)
                 /\ ctx[k] = tokens[ctx[k].ref]
                 /\ k > 1 => ctx[k - 1].ref < ctx[k].ref
           /\ \A j, k \in 1..Len(ctx) :
                 (ctx[j].ref \in HeadingPositions /\ ctx[k].ref \notin HeadingPositions)
                     => j < k
           /\ \A p \in HeadingsBefore(Anchor(n)) :
                 \/ {p - 2, p - 1, p} \subseteq ContextPositions(n)
                 \/ {p - 2, p - 1, p} \cap ContextPositions(n) = {}
           /\ \A p1, p2 \in kept : p1 < p2 => HeadingLevel(p1) < HeadingLevel(p2)

\* a note whose context holds two headings and tokens of the list, from a
\* document with one more heading, which is not in the context
C20_Witness ==
    \E n \in RegionNotes :
        /\ Cardinality(HeadingsBefore(Anchor(n)) \cap ContextPositions(n)) = 2
        /\ Cardinality(HeadingsBefore(Anchor(n))) > 2
        /\ Ancestors(Anchor(n)) # {}

\* the front tokens of the note n of list card x are the item's tokens from
\* its list_item_open to the carrier inline, the carrier with the children it
\* has in the document (wrapped, when the direction is Backward)
HasListCardFront(x, n) ==
    LET reg == card_indices[x]
        final == FinalTokens(n)
        lead == reg.inline_token_index - reg.list_open_token_index
    IN /\ Len(final) >= lead + 1
       /\ SubSeq(final, 1, lead)
            = Plain(SubSeq(tokens, reg.list_open_token_index, reg.inline_token_index - 1))
       /\ final[lead + 1].type = "inline"
       /\ \/ final[lead + 1].children = CarrierInline(x).children
          \/ IsWrapped(final[lead + 1].children, CarrierInline(x).children, 1)
\* the back tokens of the note n of list card x are the document's tokens
\* from the one after the carrier inline to position last
HasListCardBack(x, n, last) ==
    LET reg == card_indices[x]
        final == FinalTokens(n)
    IN /\ Len(final) - FrontLen(x) = last - reg.inline_token_index
       /\ \A p \in (reg.inline_token_index + 1)..last :
             /\ p - reg.list_open_token_index + 1 <= Len(final)
             /\ final[p - reg.list_open_token_index + 1].type = tokens[p].type
             /\ final[p - reg.list_open_token_index + 1].level = tokens[p].level
             /\ final[p - reg.list_open_token_index + 1].content = tokens[p].content

\* C21, as claimed: the back of a list card ends with the token before the
\* matching list_item_close.
C21_ListCardWindows_Original ==
    \A x \in Regions : \A n \in NotesOf("card", x) :
        IsListCard(x) =>
            /\ HasListCardFront(x, n)
            /\ HasListCardBack(x, n, card_indices[x].list_close_token_index - 1)

\* C21, amended: the front of a list card is the item's tokens up to and
\* including the carrier inline, its back the tokens after the carrier up to
\* and including the matching list_item_close.
C21_ListCardWindows ==
    \A x \in Regions : \A n \in NotesOf("card", x) :
        IsListCard(x) =>
            /\ HasListCardFront(x, n)
            /\ HasListCardBack(x, n, card_indices[x].list_close_token_index)
            /\ FinalTokens(n)[Len(FinalTokens(n))].type = "list_item_close"

\* a list card with MaxBack back items has its note
C21_Witness ==
    \E x \in Regions :
        /\ IsListCard(x)
        /\ NotesOf("card", x) # {}
        /\ Cardinality(TopOpens(x, card_indices[x].list_close_token_index)) = MaxBack

\* the text of the carrier child on the left and on the right of the glyph
CarrierLeft(x) == SplitOnce(CarrierContent(x), Glyph(x))[1]
CarrierRight(x) == SplitOnce(CarrierContent(x), Glyph(x))[2]
\* both sides of the inline card of region x are empty: nothing before the
\* glyph, and no back children (the carrier child is blank after the glyph)
BothSidesEmpty(x) ==
    /\ card_indices[x].symbol_child_index = 1
    /\ Strip(CarrierLeft(x)) = <<>>
    /\ Strip(CarrierRight(x)) = <<>>

\* C22: once the synthesis loop has passed an inline-card candidate, the
\* candidate has no note when both its sides are empty and exactly one note
\* otherwise.
C22_InlineDiscard ==
    \A x \in Regions :
        (Residue(x) # <<>> /\ r > x /\ pc # "error") =>
            IF BothSidesEmpty(x) THEN NotesOf("card", x) = {}
            ELSE Cardinality(NotesOf("card", x)) = 1

\* children is original between the two marker children of cloze number k,
\* the opening one written with the characters of spacing before its braces
ExactlyWrapped(children, original, k, spacing) ==
    /\ Len(children) = Len(original) + 2
    /\ children[1]
         = Child("text", 0, spacing \o <<"{", "{", "c">> \o Str(k) \o <<":", ":", " ">>)
    /\ children[Len(children)] = Child("text", 0, <<" ", "}", "}">>)
    /\ SubSeq(children, 2, Len(children) - 1) = original
\* the children that the token at position p of the note of region x has
\* before any injection
ChildrenBeforeInjection(x, p) ==
    LET reg == card_indices[x]
        carrier == CarrierInline(x)
        k == reg.symbol_child_index
    IN IF p < FrontLen(x) THEN tokens[reg.list_open_token_index + p - 1].children
       ELSE IF p = FrontLen(x)
       THEN IF Residue(x) = <<>> THEN carrier.children
            ELSE SubSeq(carrier.children, 1, k - 1)
                 \o <<Child("text", 0, CarrierLeft(x) \o Glyph(x))>>
       ELSE IF Residue(x) = <<>> THEN tokens[reg.list_open_token_index + p - 1].children
       ELSE <<Child("text", 0, CarrierRight(x))>>
            \o SubSeq(carrier.children, k + 1, Len(carrier.children))
\* every token of a separator card's note that carries a marker is its
\* original wrapped exactly, with no spacing when it is back content of a
\* Forward or Bidirectional list card and with the given spacing otherwise
InjectionsAreExact(spacing) ==
    \A x \in Regions : \A n \in NotesOf("card", x) :
        \A p \in MarkerPositions(FinalTokens(n)) :
            \E k \in 1..MaxCloze :
                ExactlyWrapped(FinalTokens(n)[p].children, ChildrenBeforeInjection(x, p), k,
                    IF IsListCard(x) /\ card_indices[x].symbol_direction # BACKWARD
                    THEN <<>> ELSE spacing)

FirstAfterCarrier(x) ==
    LET after == {p \in (card_indices[x].inline_token_index + 1)..Len(tokens) :
                     tokens[p].type \notin {"paragraph_open", "paragraph_close"}}
    IN CHOOSE p \in after : \A o \in after : p <= o

\* C24: a list-card candidate has a note only when the first token after its
\* carrier inline, paragraph opens and closes ignored, opens a bullet list; a
\* bullet list that comes later in the item, after other content, does not
\* make the candidate a card.
C24_ImmediateNesting ==
    \A x \in Regions :
        (Residue(x) = <<>> /\ NotesOf("card", x) # {}) =>
            tokens[FirstAfterCarrier(x)].type = "bullet_list_open"

\* C25: every cloze-span card carries exactly the tags the front matter
\* declares, whatever separator cards the file has and whatever tags their
\* lines carry.
C25_RegionIndependence ==
    \A n \in 1..Len(notes) :
        origin[n].kind = "cloze" => notes[n].tags = DeclaredTags

\* the token sequence ts has an inline token whose children start with an
\* opening marker and end with a closing one
HasMarkerPair(ts) ==
    \E p \in 1..Len(ts) :
        LET ch == ts[p].children
        IN /\ Len(ch) >= 2
           /\ \E k \in 1..MaxCloze : IsClozeStart(ch[1], k)
           /\ IsClozeEnd(ch[Len(ch)])
\* the children of the carrier inline of region x that follow the child with
\* the glyph
ChildrenAfterGlyph(x) ==
    LET ch == CarrierInline(x).children
    IN SubSeq(ch, card_indices[x].symbol_child_index + 1, Len(ch))
\* the token sequence ts has an inline token whose children hold the sequence
\* kept, unchanged and in order
KeepsChildren(ts, kept) ==
    kept # <<>> =>
        \E p \in 1..Len(ts) : \E a \in 1..Len(ts[p].children) :
            SubSeq(ts[p].children, a, a + Len(kept) - 1) = kept

\* C26: every note of a separator-card region has an inline token wrapped in
\* a pair of cloze markers, and holds every child of the carrier inline that
\* follows the glyph, also when the carrier's text child ends right after the
\* glyph and emphasis follows it.
C26_ClozePresence ==
    \A x \in Regions : \A n \in NotesOf("card", x) :
        /\ HasMarkerPair(FinalTokens(n))
        /\ KeepsChildren(FinalTokens(n), ChildrenAfterGlyph(x))

====
